---- MODULE Spec2Model ----
(***************************************************************************)
(* adanos-alert: the aggregation job (job.AggregationJob: classification   *)
(* of pending events, rematch of canceled events, advance of collecting    *)
(* groups) and the cron leader election (job.DistributeLockManager).       *)
(* The document store (events, groups, rules, locks) is the shared state;  *)
(* every store round trip of a job is one step of the model.               *)
(***************************************************************************)
EXTENDS Integers, Sequences, FiniteSets, TLC

\* ---------------------------------------------------------------- bounds
NumEvents == 2
MaxQueue == 3
MaxCalls == 4
MaxStored == 5
MaxMessages == 3
MaxTriggered == 4
MaxTime == 1
MaxFaults == 1
MaxLockTicks == 5
MaxLeases == 3
NumServers == 3

Nodes == {1, 2}
Workers == {1, 2}
Events == 1 .. NumEvents
Rules == {1, 2, 3, 4, 5}

\* ------------------------------------------------------------- constants
\* the lease TTL handed to lockRepo.Lock and lockRepo.Renew, in seconds
LeaseTTL == 90
\* capacity of the AggregationJob.executing channel
ExecutingCap == 1
\* the scheduler's tick, a third of the lease TTL
ClockStep == LeaseTTL \div 3

lockResource == "crontab-lock"
NilObjectID == 0
None == [lock_id |-> NilObjectID, owner |-> 0, expires_at |-> 0]

VARIABLES
    events,       \* event store: id -> [status, group_ids, kind]
    groups,       \* group store: sequence of group documents, id = index
    ruleEnabled,  \* rule store: rule id -> enabled?
    now,          \* the clock
    published,    \* group ids carried by MessageGroupPendingEvent on the bus
    nodeOf,       \* deployment: the node each Handle caller runs on
    executing,    \* per node: number of items in AggregationJob.executing
    job,          \* per Handle caller: position and locals of the run
    faults,       \* store failures the environment may still inject
    stable,       \* 0: input changed; 1: a run on unchanged input is in
                  \* flight; 2: a complete run has seen the unchanged input
    lease,        \* lock store: the row of lockResource, or None
    nextLease,    \* lock store: next fresh lock id
    locked,       \* per node: DistributeLockManager.locked
    lockID,       \* per node: DistributeLockManager.lockID
    lastErr,      \* per node: what the last TryLock / TryUnLock returned
    leasedAt,     \* when the lease row was last written by Lock or Renew
    lpc,          \* per node: "idle", or "lock" inside TryLock's fallback to lock()
    trigger,      \* a TriggerMatcher under test: its condition, its compiled
                  \* program, the last context it was run on and what Match returned
    tc,           \* a TriggerContext of one evaluation: its callback, its
                  \* once flag, its messages field, and what the callers saw
    agent,        \* the agent: its local queue, the last request to
                  \* POST /messages/ and the response it got
    mm,           \* a MessageMatcher under test: the rule it was built from,
                  \* the event it was run on, what Match and Rule() returned
    cut,          \* the last call of CutGroupEvents and its response, and
                  \* the reduce events on the bus
    conn          \* a Connector Send: its server list, its loop index, its
                  \* err, the servers tried and the servers that stored the event

aggVars == <<events, groups, ruleEnabled, published, nodeOf, executing, job, faults, stable>>
lockVars == <<lease, nextLease, locked, lockID, lastErr, leasedAt, lpc>>
sideVars == <<trigger, tc, agent, mm, cut, conn>>
vars == <<events, groups, ruleEnabled, now, published, nodeOf, executing, job,
          faults, stable, lease, nextLease, locked, lockID, lastErr, leasedAt, lpc,
          trigger, tc, agent, mm, cut, conn>>

\* ------------------------------------------------------ events and rules
\* Event payloads the ingress accepts (Tags, Meta["server"], Type).
Payloads == <<
    [Tags |-> {"php"},         server |-> "a",   Type |-> "b:c"],
    [Tags |-> {"php"},         server |-> "a:b", Type |-> "c"],
    [Tags |-> {"php", "java"}, server |-> "a",   Type |-> "c"],
    [Tags |-> {},              server |-> "a",   Type |-> "c"] >>

Kinds == 1 .. Len(Payloads)

\* The rules of the rule store: match expression, ignore expression,
\* aggregate expression, readiness delay.
RuleTable == <<
    [hex |-> "r1",
     Rule |-> [op |-> "in", tag |-> "php"],
     IgnoreRule |-> [op |-> "in", tag |-> "java"],
     AggregateRule |-> "Meta[server]",
     ReadyDelay |-> 1],
    [hex |-> "r2",
     Rule |-> [op |-> "notin", tag |-> "java"],
     IgnoreRule |-> [op |-> "none", tag |-> ""],
     AggregateRule |-> "",
     ReadyDelay |-> 0],
    [hex |-> "r3",
     Rule |-> [op |-> "invalid", tag |-> "xxxxxxx"],
     IgnoreRule |-> [op |-> "none", tag |-> ""],
     AggregateRule |-> "",
     ReadyDelay |-> 0],
    [hex |-> "r4",
     Rule |-> [op |-> "head", tag |-> "php"],
     IgnoreRule |-> [op |-> "none", tag |-> ""],
     AggregateRule |-> "Meta[",
     ReadyDelay |-> 1],
    [hex |-> "r5",
     Rule |-> [op |-> "in", tag |-> "php"],
     IgnoreRule |-> [op |-> "none", tag |-> ""],
     AggregateRule |-> "Meta[server][0]",
     ReadyDelay |-> 1] >>

\* does expr.Compile accept the match expression
Compiles(e) == e.op # "invalid"

\* expr.Run on a compiled match program: [val, err]
Eval(e, p) ==
    CASE e.op = "in"    -> [val |-> e.tag \in p.Tags, err |-> FALSE]
      [] e.op = "notin" -> [val |-> e.tag \notin p.Tags, err |-> FALSE]
      [] e.op = "true"  -> [val |-> TRUE, err |-> FALSE]
      [] e.op = "head"  -> IF p.Tags = {} THEN [val |-> FALSE, err |-> TRUE]
                           ELSE [val |-> e.tag \in p.Tags, err |-> FALSE]
      [] e.op = "none"  -> [val |-> FALSE, err |-> FALSE]
      [] OTHER          -> [val |-> FALSE, err |-> TRUE]

\* MessageMatcher.Match: (matched, ignored, err)
Match(r, p) ==
    LET m == Eval(RuleTable[r].Rule, p)
        i == Eval(RuleTable[r].IgnoreRule, p)
    IN  IF m.err THEN [matched |-> FALSE, ignored |-> FALSE, err |-> TRUE]
        ELSE IF ~m.val THEN [matched |-> FALSE, ignored |-> FALSE, err |-> FALSE]
        ELSE IF i.err THEN [matched |-> FALSE, ignored |-> FALSE, err |-> TRUE]
        ELSE [matched |-> TRUE, ignored |-> i.val, err |-> FALSE]

\* matcher.NewMessageFinger(groupRule) followed by finger.Run(msg)
FingerRun(groupRule, p) ==
    CASE groupRule = ""             -> [key |-> "", err |-> "nil"]
      [] groupRule = "Meta[server]" -> [key |-> p.server, err |-> "nil"]
      [] groupRule = "Meta["        -> [key |-> "", err |-> "compile"]
      [] OTHER                      -> [key |-> "", err |-> "run"]

\* a fingerprint that hands back whatever key the finger produced
BuildMessageFingerRaw(groupRule, p) == FingerRun(groupRule, p).key

\* BuildMessageFinger: the aggregate key, or a sentinel when the finger fails
BuildMessageFinger(groupRule, p) ==
    LET f == FingerRun(groupRule, p)
    IN  CASE f.err = "compile" -> "[error]invalid_rule"
          [] f.err = "run"     -> "[error]parse_failed"
          [] OTHER             -> f.key

\* key := fmt.Sprintf("%s:%s:%s", m.Rule().ID.Hex(), aggregateKey, msg.Type)
CacheKey(r, aggregateKey, type) ==
    RuleTable[r].hex \o ":" \o aggregateKey \o ":" \o type

\* ------------------------------------------------------------ the store
GroupIds == 1 .. Len(groups)

SeqOfSet(S) ==
    LET RECURSIVE build(_)
        build(T) == IF T = {} THEN <<>>
                    ELSE LET x == CHOOSE y \in T : \A z \in T : y <= z
                         IN  <<x>> \o build(T \ {x})
    IN  build(S)

\* a Pass 1 that visits every stored message
Pass1FilterAll(status) == status # "absent"

\* the filter of Pass 1's msgRepo.Traverse
Pass1Filter(status) == status = "pending"

\* a Pass 2 that also visits the grouped messages
Pass2FilterGrouped(status) == status \in {"canceled", "grouped"}

\* the filter of Pass 2's msgRepo.Traverse
Pass2Filter(status) == status = "canceled"

\* the filter of Pass 3's groupRepo.Traverse
Pass3Filter(status) == status = "collecting"

Doc(e) == [id |-> e, status |-> events[e].status, group_ids |-> events[e].group_ids]

\* msgRepo.Traverse: the documents the cursor yields, in store order
TraverseEvents(Filter(_)) ==
    LET ids == SeqOfSet({e \in Events : Filter(events[e].status)})
    IN  [i \in 1 .. Len(ids) |-> Doc(ids[i])]

\* groupRepo.Traverse
TraverseGroups(Filter(_)) ==
    LET ids == SeqOfSet({g \in GroupIds : Filter(groups[g].status)})
    IN  [i \in 1 .. Len(ids) |-> [id |-> ids[i]] @@ groups[ids[i]]]

\* the nil *MessageMatcher
NilMatcher == 0

\* matcher.NewMessageMatcher(ru): the matcher of the rule, nil with an
\* error when the match expression does not compile
NewMessageMatcher(r) == IF Compiles(RuleTable[r].Rule) THEN r ELSE NilMatcher

\* ruleRepo.Find({status: enabled}), then Map(NewMessageMatcher): the error
\* is logged and the nil matcher is kept in the slice
initializeMatchers ==
    LET rules == SeqOfSet({r \in Rules : ruleEnabled[r]})
    IN  [i \in 1 .. Len(rules) |-> NewMessageMatcher(rules[i])]

\* groupRepo.CollectingGroup: the collecting group of the triple, if any
FindCollecting(r, aggregateKey, type) ==
    {g \in GroupIds : /\ groups[g].rule = r
                      /\ groups[g].aggregate_key = aggregateKey
                      /\ groups[g].type = type
                      /\ groups[g].status = "collecting"}

\* groupRepo.CollectingGroup: atomic find-or-insert of the collecting group
\* of the triple; the store after the call and the id of the group returned
CollectingGroup(r, aggregateKey, type) ==
    LET found == FindCollecting(r, aggregateKey, type)
    IN  IF found # {}
        THEN [store |-> groups,
              id |-> CHOOSE g \in found : \A h \in found : g <= h]
        ELSE [store |-> Append(groups,
                 [rule |-> r, aggregate_key |-> aggregateKey, type |-> type,
                  status |-> "collecting",
                  expect_ready_at |-> now + RuleTable[r].ReadyDelay,
                  message_count |-> 0]),
              id |-> Len(groups) + 1]

\* MessageGroup.Ready
Ready(grp) == grp.expect_ready_at <= now

\* msgRepo.Count({group_ids: id})
CountMessages(g) ==
    Cardinality({e \in Events :
        \E i \in 1 .. Len(events[e].group_ids) : events[e].group_ids[i] = g})

\* ------------------------------------------------------- AggregationJob
NoMsg == [id |-> 0, status |-> "", group_ids |-> <<>>]

Idle == [pc |-> "idle", matchers |-> <<>>, todo |-> <<>>, msg |-> NoMsg, mi |-> 1,
         messageCanIgnore |-> FALSE, collectingGroups |-> <<>>, msgCount |-> 0]

Running(w) == job[w].pc # "idle"

\* the first document of a traversal, as the callback receives it
First(docs) == IF docs = <<>> THEN NoMsg ELSE Head(docs)

\* one node runs every Handle caller
SingleNode == \A v, w \in Workers : nodeOf[v] = nodeOf[w]

\* stable is kept for a single node only: there runs do not overlap
Track(s) == IF SingleNode THEN s ELSE stable

\* the outcomes the environment may give a store call: may it fail
MayFail == IF faults > 0 THEN BOOLEAN ELSE {FALSE}

\* a panic that leaves the item in the executing channel
PanicKeepsSlot(w) ==
    /\ job' = [job EXCEPT ![w] = Idle]
    /\ UNCHANGED executing
    /\ stable' = Track(IF stable = 1 THEN 0 ELSE stable)
    /\ faults' = faults - 1

\* a pass returned an error: MustResolve panics, the deferred receive runs
Panic(w) ==
    /\ job' = [job EXCEPT ![w] = Idle]
    /\ executing' = [executing EXCEPT ![nodeOf[w]] = @ - 1]
    /\ stable' = Track(IF stable = 1 THEN 0 ELSE stable)
    /\ faults' = faults - 1

\* m.Match on a nil matcher: the nil dereference panics inside the
\* traversal callback and the deferred receive of Handle runs
NilDeref(w) ==
    /\ job' = [job EXCEPT ![w] = Idle]
    /\ executing' = [executing EXCEPT ![nodeOf[w]] = @ - 1]
    /\ stable' = Track(IF stable = 1 THEN 0 ELSE stable)
    /\ UNCHANGED faults

\* a guard that lets every caller in
SlotFreeAlways(n) == TRUE

\* the select in Handle: is there room in the executing channel
SlotFree(n) == executing[n] < ExecutingCap

\* Handle, case a.executing <- struct{}{}
HandleStart(w) ==
    /\ job[w].pc = "idle"
    /\ SlotFree(nodeOf[w])
    /\ executing' = [executing EXCEPT ![nodeOf[w]] = @ + 1]
    /\ job' = [job EXCEPT ![w].pc = "load"]
    /\ stable' = Track(IF stable = 0 THEN 1 ELSE stable)
    /\ UNCHANGED <<events, groups, ruleEnabled, now, published, nodeOf, faults>>
    /\ UNCHANGED <<lockVars, sideVars>>

\* a Handle that waits for the slot: the call that finds a run in flight is
\* parked and runs its passes once the slot is free
HandleSkipQueues(w) ==
    \/ /\ job[w].pc = "idle"
       /\ ~SlotFree(nodeOf[w])
       /\ job' = [job EXCEPT ![w].pc = "queued"]
       /\ UNCHANGED <<events, groups, ruleEnabled, now, published, nodeOf, executing,
                      faults, stable>>
       /\ UNCHANGED <<lockVars, sideVars>>
    \/ /\ job[w].pc = "queued"
       /\ SlotFree(nodeOf[w])
       /\ executing' = [executing EXCEPT ![nodeOf[w]] = @ + 1]
       /\ job' = [job EXCEPT ![w].pc = "load"]
       /\ UNCHANGED <<events, groups, ruleEnabled, now, published, nodeOf, faults, stable>>
       /\ UNCHANGED <<lockVars, sideVars>>

\* Handle, default case: the tick is skipped
HandleSkip(w) ==
    /\ job[w].pc = "idle"
    /\ ~SlotFree(nodeOf[w])
    /\ UNCHANGED vars

\* groupingMessages: initializeMatchers, then the find of Pass 1
GroupingStart(w) ==
    /\ job[w].pc = "load"
    /\ \E fail \in MayFail :
         IF fail THEN Panic(w)
         ELSE /\ job' = [job EXCEPT ![w].pc = "p1",
                                    ![w].matchers = initializeMatchers,
                                    ![w].todo = TraverseEvents(Pass1Filter),
                                    ![w].msg = First(TraverseEvents(Pass1Filter)),
                                    ![w].mi = 1,
                                    ![w].messageCanIgnore = FALSE,
                                    ![w].collectingGroups = <<>>]
              /\ UNCHANGED <<executing, stable, faults>>
    /\ UNCHANGED <<events, groups, ruleEnabled, now, published, nodeOf>>
    /\ UNCHANGED <<lockVars, sideVars>>

\* a plain insert where the code asks for the collecting group
LookupGroupInsert(r, aggregateKey, type) ==
    [store |-> Append(groups,
        [rule |-> r, aggregate_key |-> aggregateKey, type |-> type,
         status |-> "collecting",
         expect_ready_at |-> now + RuleTable[r].ReadyDelay,
         message_count |-> 0]),
     id |-> Len(groups) + 1]

\* grp, err := groupRepo.CollectingGroup(m.Rule().ToGroupRule(aggregateKey, msg.Type))
LookupGroup(r, aggregateKey, type) == CollectingGroup(r, aggregateKey, type)

\* the message marked grouped without the group id
AppendGroupNoId(m, id) == [m EXCEPT !.status = "grouped"]

\* msg.GroupID = append(msg.GroupID, collectingGroups[key].ID); msg.Status = grouped
AppendGroup(m, id) == [m EXCEPT !.group_ids = Append(@, id), !.status = "grouped"]

\* collectingGroups[key], for a key the map holds
Cached(c, key) == c[CHOOSE i \in 1 .. Len(c) : c[i].key = key].id

\* a loop body that takes a Match error for the ignore flag
BranchErrIgnores(res) ==
    IF res.err THEN "ignore"
    ELSE IF ~res.matched THEN "next"
    ELSE IF res.ignored THEN "ignore"
    ELSE "group"

\* the branch the body of the matcher loop takes on a Match result
Branch(res) ==
    IF res.err THEN "continue"
    ELSE IF ~res.matched THEN "next"
    ELSE IF res.ignored THEN "ignore"
    ELSE "group"

\* a Pass 1 that logs the error of the group lookup and goes on to the
\* next matcher
P1MatchSwallows(w) ==
    /\ job[w].pc = "p1"
    /\ job[w].todo # <<>>
    /\ job[w].mi <= Len(job[w].matchers)
    /\ LET j == job[w]
           r == j.matchers[j.mi]
           p == Payloads[events[j.msg.id].kind]
           res == Match(r, p)
           aggregateKey == BuildMessageFinger(RuleTable[r].AggregateRule, p)
           key == CacheKey(r, aggregateKey, p.Type)
           ok == \E i \in 1 .. Len(j.collectingGroups) : j.collectingGroups[i].key = key
           grp == LookupGroup(r, aggregateKey, p.Type)
       IN  IF r = NilMatcher
           THEN NilDeref(w) /\ UNCHANGED groups
           ELSE IF Branch(res) \in {"continue", "next"}
           THEN /\ job' = [job EXCEPT ![w].mi = @ + 1]
                /\ UNCHANGED <<groups, executing, stable, faults>>
           ELSE IF Branch(res) = "ignore"
           THEN /\ job' = [job EXCEPT ![w].mi = @ + 1, ![w].messageCanIgnore = TRUE]
                /\ UNCHANGED <<groups, executing, stable, faults>>
           ELSE IF ok
           THEN /\ job' = [job EXCEPT
                      ![w].mi = @ + 1,
                      ![w].msg = AppendGroup(@, Cached(j.collectingGroups, key))]
                /\ UNCHANGED <<groups, executing, stable, faults>>
           ELSE \E fail \in MayFail :
                  IF fail
                  THEN /\ job' = [job EXCEPT ![w].mi = @ + 1]
                       /\ faults' = faults - 1
                       /\ UNCHANGED <<groups, executing, stable>>
                  ELSE /\ groups' = grp.store
                       /\ job' = [job EXCEPT
                             ![w].mi = @ + 1,
                             ![w].collectingGroups = Append(@, [key |-> key, id |-> grp.id]),
                             ![w].msg = AppendGroup(@, grp.id)]
                       /\ UNCHANGED <<executing, stable, faults>>
    /\ UNCHANGED <<events, ruleEnabled, now, published, nodeOf>>
    /\ UNCHANGED <<lockVars, sideVars>>

\* Pass 1, one turn of `for _, m := range matchers`
P1Match(w) ==
    /\ job[w].pc = "p1"
    /\ job[w].todo # <<>>
    /\ job[w].mi <= Len(job[w].matchers)
    /\ LET j == job[w]
           r == j.matchers[j.mi]
           p == Payloads[events[j.msg.id].kind]
           res == Match(r, p)
           aggregateKey == BuildMessageFinger(RuleTable[r].AggregateRule, p)
           key == CacheKey(r, aggregateKey, p.Type)
           ok == \E i \in 1 .. Len(j.collectingGroups) : j.collectingGroups[i].key = key
           grp == LookupGroup(r, aggregateKey, p.Type)
       IN  IF r = NilMatcher
           THEN NilDeref(w) /\ UNCHANGED groups
           ELSE IF Branch(res) \in {"continue", "next"}
           THEN /\ job' = [job EXCEPT ![w].mi = @ + 1]
                /\ UNCHANGED <<groups, executing, stable, faults>>
           ELSE IF Branch(res) = "ignore"
           THEN /\ job' = [job EXCEPT ![w].mi = @ + 1, ![w].messageCanIgnore = TRUE]
                /\ UNCHANGED <<groups, executing, stable, faults>>
           ELSE IF ok
           THEN /\ job' = [job EXCEPT
                      ![w].mi = @ + 1,
                      ![w].msg = AppendGroup(@, Cached(j.collectingGroups, key))]
                /\ UNCHANGED <<groups, executing, stable, faults>>
           ELSE \E fail \in MayFail :
                  IF fail THEN Panic(w) /\ UNCHANGED groups
                  ELSE /\ groups' = grp.store
                       /\ job' = [job EXCEPT
                             ![w].mi = @ + 1,
                             ![w].collectingGroups = Append(@, [key |-> key, id |-> grp.id]),
                             ![w].msg = AppendGroup(@, grp.id)]
                       /\ UNCHANGED <<executing, stable, faults>>
    /\ UNCHANGED <<events, ruleEnabled, now, published, nodeOf>>
    /\ UNCHANGED <<lockVars, sideVars>>

\* the decision with ignored and canceled swapped
Pass1StatusSwapped(status, messageCanIgnore) ==
    IF status = "pending"
    THEN IF messageCanIgnore THEN "canceled" ELSE "ignored"
    ELSE status

\* the status Pass 1 gives a message after the matcher loop
Pass1Status(status, messageCanIgnore) ==
    IF status = "pending"
    THEN IF messageCanIgnore THEN "ignored" ELSE "canceled"
    ELSE status

\* Pass 1, after the matcher loop: the status decision and msgRepo.UpdateID
P1Persist(w) ==
    /\ job[w].pc = "p1"
    /\ job[w].todo # <<>>
    /\ job[w].mi > Len(job[w].matchers)
    /\ \E fail \in MayFail :
         IF fail THEN Panic(w) /\ UNCHANGED events
         ELSE /\ events' = [events EXCEPT
                    ![job[w].msg.id].status =
                        Pass1Status(job[w].msg.status, job[w].messageCanIgnore),
                    ![job[w].msg.id].group_ids = job[w].msg.group_ids]
              /\ job' = [job EXCEPT ![w].todo = Tail(@),
                                    ![w].msg = First(Tail(job[w].todo)),
                                    ![w].mi = 1,
                                    ![w].messageCanIgnore = FALSE]
              /\ UNCHANGED <<executing, stable, faults>>
    /\ UNCHANGED <<groups, ruleEnabled, now, published, nodeOf>>
    /\ UNCHANGED <<lockVars, sideVars>>

\* a Pass 1 that hands over to Pass 2 before its cursor is exhausted
P1FinishEarly(w) ==
    /\ job[w].pc = "p1"
    /\ job[w].mi = 1
    /\ job' = [job EXCEPT ![w].pc = "p2",
                          ![w].todo = TraverseEvents(Pass2Filter),
                          ![w].msg = NoMsg]
    /\ UNCHANGED <<events, groups, ruleEnabled, now, published, nodeOf, executing,
                   stable, faults>>
    /\ UNCHANGED <<lockVars, sideVars>>

\* Pass 1 is through; the find of Pass 2
P1Finish(w) ==
    /\ job[w].pc = "p1"
    /\ job[w].todo = <<>>
    /\ \E fail \in MayFail :
         IF fail THEN Panic(w)
         ELSE /\ job' = [job EXCEPT ![w].pc = "p2",
                                    ![w].todo = TraverseEvents(Pass2Filter),
                                    ![w].msg = NoMsg]
              /\ UNCHANGED <<executing, stable, faults>>
    /\ UNCHANGED <<events, groups, ruleEnabled, now, published, nodeOf>>
    /\ UNCHANGED <<lockVars, sideVars>>

\* a Pass 2 that rematches nothing
RematchNever(ms, p) == FALSE

\* a Pass 2 that asks for every matcher to match
RematchAll(ms, p) ==
    \A i \in 1 .. Len(ms) :
        ms[i] # NilMatcher /\ ~Match(ms[i], p).err /\ Match(ms[i], p).matched

\* Pass 2: does a matcher match the canceled message
Rematch(ms, p) ==
    \E i \in 1 .. Len(ms) :
        ms[i] # NilMatcher /\ ~Match(ms[i], p).err /\ Match(ms[i], p).matched

\* Pass 2: the loop reaches a nil matcher before a matcher matches and breaks
RematchNil(ms, p) ==
    \E i \in 1 .. Len(ms) :
        /\ ms[i] = NilMatcher
        /\ \A j \in 1 .. i - 1 :
             ms[j] # NilMatcher /\ (Match(ms[j], p).err \/ ~Match(ms[j], p).matched)

\* Pass 2, one message: the matcher loop and msgRepo.UpdateID
P2Visit(w) ==
    /\ job[w].pc = "p2"
    /\ job[w].todo # <<>>
    /\ \E fail \in MayFail :
         IF RematchNil(job[w].matchers, Payloads[events[Head(job[w].todo).id].kind])
         THEN NilDeref(w) /\ UNCHANGED events
         ELSE IF fail THEN Panic(w) /\ UNCHANGED events
         ELSE LET d == Head(job[w].todo)
                  p == Payloads[events[d.id].kind]
              IN  /\ events' = [events EXCEPT
                        ![d.id].status =
                            IF Rematch(job[w].matchers, p) THEN "expired" ELSE d.status,
                        ![d.id].group_ids = d.group_ids]
                  /\ job' = [job EXCEPT ![w].todo = Tail(@)]
                  /\ UNCHANGED <<executing, stable, faults>>
    /\ UNCHANGED <<groups, ruleEnabled, now, published, nodeOf>>
    /\ UNCHANGED <<lockVars, sideVars>>

\* groupingMessages returns nil; pendingMessageGroup: the find of Pass 3
P2Finish(w) ==
    /\ job[w].pc = "p2"
    /\ job[w].todo = <<>>
    /\ \E fail \in MayFail :
         IF fail THEN Panic(w)
         ELSE /\ job' = [job EXCEPT ![w].pc = "p3",
                                    ![w].todo = TraverseGroups(Pass3Filter)]
              /\ UNCHANGED <<executing, stable, faults>>
    /\ UNCHANGED <<events, groups, ruleEnabled, now, published, nodeOf>>
    /\ UNCHANGED <<lockVars, sideVars>>

\* msgCount, err := msgRepo.Count(...): the error is logged, the count kept
CountResult(g, fail) == IF fail THEN 0 ELSE CountMessages(g)

\* a Pass 3 that does not ask whether the group is ready
P3CountEager(w) ==
    /\ job[w].pc = "p3"
    /\ job[w].todo # <<>>
    /\ \E fail \in MayFail :
         /\ job' = [job EXCEPT ![w].pc = "p3u",
                               ![w].msgCount = CountResult(Head(job[w].todo).id, fail)]
         /\ faults' = IF fail THEN faults - 1 ELSE faults
    /\ UNCHANGED <<events, groups, ruleEnabled, now, published, nodeOf, executing, stable>>
    /\ UNCHANGED <<lockVars, sideVars>>

\* Pass 3, one group: Ready and msgRepo.Count
P3Count(w) ==
    /\ job[w].pc = "p3"
    /\ job[w].todo # <<>>
    /\ LET grp == Head(job[w].todo)
       IN  IF ~Ready(grp)
           THEN job' = [job EXCEPT ![w].todo = Tail(@)] /\ UNCHANGED faults
           ELSE \E fail \in MayFail :
                  /\ job' = [job EXCEPT ![w].pc = "p3u",
                                        ![w].msgCount = CountResult(grp.id, fail)]
                  /\ faults' = IF fail THEN faults - 1 ELSE faults
    /\ UNCHANGED <<events, groups, ruleEnabled, now, published, nodeOf, executing, stable>>
    /\ UNCHANGED <<lockVars, sideVars>>

\* Pass 3, one group: groupRepo.UpdateID and em.Publish
P3Update(w) ==
    /\ job[w].pc = "p3u"
    /\ LET grp == Head(job[w].todo)
           doc == [rule |-> grp.rule, aggregate_key |-> grp.aggregate_key,
                   type |-> grp.type, status |-> "pending",
                   expect_ready_at |-> grp.expect_ready_at,
                   message_count |-> job[w].msgCount]
       IN  /\ published' = published \cup {grp.id}
           /\ \E fail \in MayFail :
                IF fail THEN Panic(w) /\ UNCHANGED groups
                ELSE /\ groups' = [groups EXCEPT ![grp.id] = doc]
                     /\ job' = [job EXCEPT ![w].pc = "p3", ![w].todo = Tail(@),
                                           ![w].msgCount = 0]
                     /\ UNCHANGED <<executing, stable, faults>>
    /\ UNCHANGED <<events, ruleEnabled, now, nodeOf>>
    /\ UNCHANGED <<lockVars, sideVars>>

\* pendingMessageGroup returns nil: both passes of Handle are through
P3Finish(w) ==
    /\ job[w].pc = "p3"
    /\ job[w].todo = <<>>
    /\ job' = [job EXCEPT ![w].pc = "done"]
    /\ stable' = Track(IF stable = 1 THEN 2 ELSE stable)
    /\ UNCHANGED <<events, groups, ruleEnabled, now, published, nodeOf, executing, faults>>
    /\ UNCHANGED <<lockVars, sideVars>>

\* Handle returns: defer func() { <-a.executing }()
HandleReturn(w) ==
    /\ job[w].pc = "done"
    /\ job' = [job EXCEPT ![w] = Idle]
    /\ executing' = [executing EXCEPT ![nodeOf[w]] = @ - 1]
    /\ UNCHANGED <<events, groups, ruleEnabled, now, published, nodeOf, stable, faults>>
    /\ UNCHANGED <<lockVars, sideVars>>

\* ---------------------------------------------------------- environment
\* the ingress inserts an event with status pending
Ingress(e, k) ==
    /\ events[e].status = "absent"
    /\ \A d \in Events : d < e => events[d].status # "absent"
    /\ events' = [events EXCEPT ![e] = [status |-> "pending", group_ids |-> <<>>, kind |-> k]]
    /\ stable' = Track(0)
    /\ UNCHANGED <<groups, ruleEnabled, now, published, nodeOf, executing, job, faults>>
    /\ UNCHANGED <<lockVars, sideVars>>

\* an operator creates (enables) a rule
EnableRule(r) ==
    /\ ~ruleEnabled[r]
    /\ ruleEnabled' = [ruleEnabled EXCEPT ![r] = TRUE]
    /\ stable' = Track(0)
    /\ UNCHANGED <<events, groups, now, published, nodeOf, executing, job, faults>>
    /\ UNCHANGED <<lockVars, sideVars>>

\* time passes
Tick ==
    /\ now < MaxTime
    /\ now' = now + 1
    /\ stable' = Track(0)
    /\ UNCHANGED <<events, groups, ruleEnabled, published, nodeOf, executing, job, faults>>
    /\ UNCHANGED <<lockVars, sideVars>>

\* ------------------------------------------------ DistributeLockManager
\* the lease row is live: its expires-at is strictly in the future
Live == lease # None /\ lease.expires_at > now

\* lockRepo.Lock(resource, owner, ttl): insert if absent or expired
RepoLock(n, fail) ==
    IF fail THEN [err |-> "error", row |-> lease]
    ELSE IF Live THEN [err |-> "ErrAlreadyLocked", row |-> lease]
    ELSE [err |-> "nil",
          row |-> [lock_id |-> nextLease, owner |-> n, expires_at |-> now + LeaseTTL]]

\* lockRepo.Renew(lockID, ttl): push the expiry of the row with that id
RepoRenew(id, fail) ==
    IF fail THEN [err |-> "error", row |-> lease]
    ELSE IF lease = None \/ lease.lock_id # id THEN [err |-> "ErrLockNotFound", row |-> lease]
    ELSE [err |-> "nil", row |-> [lease EXCEPT !.expires_at = now + LeaseTTL]]

\* lockRepo.UnLock(lockID): delete the row with that id
RepoUnLock(id, fail) ==
    IF fail THEN [err |-> "error", row |-> lease]
    ELSE IF lease = None \/ lease.lock_id # id THEN [err |-> "ErrLockNotFound", row |-> lease]
    ELSE [err |-> "nil", row |-> None]

\* DistributeLockManager.HasLock
HasLock(n) == locked[n]

\* a lock() that forgets d.locked = true
lockForgets(n, fail) ==
    LET r == RepoLock(n, fail)
    IN  /\ lease' = r.row
        /\ leasedAt' = IF r.err = "nil" THEN now ELSE leasedAt
        /\ nextLease' = IF r.err = "nil" THEN nextLease + 1 ELSE nextLease
        /\ locked' = [locked EXCEPT ![n] =
                IF r.err = "ErrAlreadyLocked" THEN FALSE ELSE @]
        /\ lockID' = [lockID EXCEPT ![n] =
                IF r.err = "nil" THEN r.row.lock_id
                ELSE IF r.err = "ErrAlreadyLocked" THEN NilObjectID ELSE @]
        /\ lastErr' = [lastErr EXCEPT ![n] =
                IF r.err \in {"nil", "ErrAlreadyLocked"} THEN "nil" ELSE "acquire lock failed"]
        /\ lpc' = [lpc EXCEPT ![n] = "idle"]

\* a lock() that takes ErrAlreadyLocked for success
lockClaims(n, fail) ==
    LET r == RepoLock(n, fail)
    IN  /\ lease' = r.row
        /\ leasedAt' = IF r.err = "nil" THEN now ELSE leasedAt
        /\ nextLease' = IF r.err = "nil" THEN nextLease + 1 ELSE nextLease
        /\ locked' = [locked EXCEPT ![n] =
                IF r.err \in {"nil", "ErrAlreadyLocked"} THEN TRUE ELSE @]
        /\ lockID' = [lockID EXCEPT ![n] =
                IF r.err = "error" THEN @ ELSE r.row.lock_id]
        /\ lastErr' = [lastErr EXCEPT ![n] =
                IF r.err \in {"nil", "ErrAlreadyLocked"} THEN "nil" ELSE "acquire lock failed"]
        /\ lpc' = [lpc EXCEPT ![n] = "idle"]

\* DistributeLockManager.lock
lock(n, fail) ==
    LET r == RepoLock(n, fail)
    IN  /\ lease' = r.row
        /\ leasedAt' = IF r.err = "nil" THEN now ELSE leasedAt
        /\ nextLease' = IF r.err = "nil" THEN nextLease + 1 ELSE nextLease
        /\ locked' = [locked EXCEPT ![n] =
                IF r.err = "nil" THEN TRUE
                ELSE IF r.err = "ErrAlreadyLocked" THEN FALSE ELSE @]
        /\ lockID' = [lockID EXCEPT ![n] =
                IF r.err = "nil" THEN r.row.lock_id
                ELSE IF r.err = "ErrAlreadyLocked" THEN NilObjectID ELSE @]
        /\ lastErr' = [lastErr EXCEPT ![n] =
                IF r.err \in {"nil", "ErrAlreadyLocked"} THEN "nil" ELSE "acquire lock failed"]
        /\ lpc' = [lpc EXCEPT ![n] = "idle"]

\* DistributeLockManager.TryLock, up to its first store call
TryLock(n) ==
    /\ lpc[n] = "idle"
    /\ nextLease <= MaxLeases
    /\ \E fail \in MayFail :
         /\ faults' = IF fail THEN faults - 1 ELSE faults
         /\ IF locked[n]
            THEN LET r == RepoRenew(lockID[n], fail)
                 IN  /\ lease' = r.row
                     /\ leasedAt' = IF r.err = "nil" THEN now ELSE leasedAt
                     /\ lpc' = [lpc EXCEPT ![n] =
                             IF r.err = "ErrLockNotFound" THEN "lock" ELSE "idle"]
                     /\ lastErr' = [lastErr EXCEPT ![n] =
                             IF r.err = "error" THEN "renew lock failed" ELSE "nil"]
                     /\ UNCHANGED <<nextLease, locked, lockID>>
            ELSE lock(n, fail)
    /\ UNCHANGED <<events, groups, ruleEnabled, now, published, nodeOf, executing, job, stable, sideVars>>

\* DistributeLockManager.TryLock: Renew answered ErrLockNotFound, lock() runs
TryLockAgain(n) ==
    /\ lpc[n] = "lock"
    /\ \E fail \in MayFail :
         /\ faults' = IF fail THEN faults - 1 ELSE faults
         /\ lock(n, fail)
    /\ UNCHANGED <<events, groups, ruleEnabled, now, published, nodeOf, executing, job, stable, sideVars>>

\* a TryUnLock that keeps the local state when the store's UnLock fails
TryUnLockKeeps(n) ==
    /\ lpc[n] = "idle"
    /\ locked[n]
    /\ \E fail \in MayFail :
         LET r == RepoUnLock(lockID[n], fail)
         IN  /\ faults' = IF fail THEN faults - 1 ELSE faults
             /\ lease' = r.row
             /\ lastErr' = [lastErr EXCEPT ![n] = r.err]
    /\ UNCHANGED <<nextLease, leasedAt, lpc, locked, lockID>>
    /\ UNCHANGED <<events, groups, ruleEnabled, now, published, nodeOf, executing, job, stable, sideVars>>

\* a TryUnLock that clears d.locked on a store error and keeps d.lockID
TryUnLockKeepsId(n) ==
    /\ lpc[n] = "idle"
    /\ locked[n]
    /\ \E fail \in MayFail :
         LET r == RepoUnLock(lockID[n], fail)
         IN  /\ faults' = IF fail THEN faults - 1 ELSE faults
             /\ lease' = r.row
             /\ locked' = [locked EXCEPT ![n] = IF r.err # "nil" THEN FALSE ELSE @]
             /\ lastErr' = [lastErr EXCEPT ![n] = r.err]
    /\ UNCHANGED <<nextLease, leasedAt, lpc, lockID>>
    /\ UNCHANGED <<events, groups, ruleEnabled, now, published, nodeOf, executing, job, stable, sideVars>>

\* DistributeLockManager.TryUnLock
TryUnLock(n) ==
    /\ lpc[n] = "idle"
    /\ locked[n]
    /\ \E fail \in MayFail :
         LET r == RepoUnLock(lockID[n], fail)
         IN  /\ faults' = IF fail THEN faults - 1 ELSE faults
             /\ lease' = r.row
             /\ locked' = [locked EXCEPT ![n] = IF r.err # "nil" THEN FALSE ELSE @]
             /\ lockID' = [lockID EXCEPT ![n] = IF r.err # "nil" THEN NilObjectID ELSE @]
             /\ lastErr' = [lastErr EXCEPT ![n] = r.err]
    /\ UNCHANGED <<nextLease, leasedAt, lpc>>
    /\ UNCHANGED <<events, groups, ruleEnabled, now, published, nodeOf, executing, job, stable, sideVars>>

\* a scheduler period passes
LockTick ==
    /\ now < MaxLockTicks * ClockStep
    /\ now' = now + ClockStep
    /\ UNCHANGED <<events, groups, ruleEnabled, published, nodeOf, executing, job, faults, stable>>
    /\ UNCHANGED <<lockVars, sideVars>>

\* ------------------------------------------------------- TriggerMatcher
\* the conditions an action's PreCondition is drawn from
Conditions ==
    {"", "true", "false", "len(Messages()) > 1",
     "TriggeredTimesInPeriod(10, \"ok\") > 0",
     "len(Messages()) > 1 && TriggeredTimesInPeriod(10, \"ok\") == 0",
     "Messages()[0].Type == \"a\"", "Group.MessageCount", "xxxxxxx"}

\* the trigger contexts: how many messages the callback yields and how often
\* the action was triggered in the period
Contexts == [messages : 0 .. MaxMessages, triggered : 0 .. MaxTriggered]

NoContext == [messages |-> 0, triggered |-> 0]
NoResult == [val |-> FALSE, err |-> "none"]
NoTrigger == [state |-> "none", condition |-> "", program |-> "nil",
              ctx |-> NoContext, res |-> NoResult]

\* expr.Compile(condition, expr.Env(&TriggerContext{}), expr.AsBool()): the
\* empty text, an unknown name and a non-boolean expression are rejected
ExprCompile(condition) ==
    IF condition \in {"", "xxxxxxx", "Group.MessageCount"}
    THEN [program |-> "nil", err |-> TRUE]
    ELSE [program |-> condition, err |-> FALSE]

\* expr.Run(program, &triggerCtx): the value, or a runtime error
ExprRun(program, ctx) ==
    CASE program = "true"  -> [val |-> TRUE, err |-> "nil"]
      [] program = "false" -> [val |-> FALSE, err |-> "nil"]
      [] program = "len(Messages()) > 1" -> [val |-> ctx.messages > 1, err |-> "nil"]
      [] program = "TriggeredTimesInPeriod(10, \"ok\") > 0" ->
             [val |-> ctx.triggered > 0, err |-> "nil"]
      [] program = "len(Messages()) > 1 && TriggeredTimesInPeriod(10, \"ok\") == 0" ->
             [val |-> ctx.messages > 1 /\ ctx.triggered = 0, err |-> "nil"]
      [] program = "Messages()[0].Type == \"a\"" ->
             IF ctx.messages = 0 THEN [val |-> FALSE, err |-> "index out of range"]
             ELSE [val |-> TRUE, err |-> "nil"]
      [] OTHER -> [val |-> 0, err |-> "nil"]

\* a constructor that compiles the condition as it stands
NewTriggerMatcherAsIs(condition) == ExprCompile(condition)

\* NewTriggerMatcher: an empty PreCondition is compiled as "true"
NewTriggerMatcher(condition) ==
    ExprCompile(IF condition = "" THEN "true" ELSE condition)

\* TriggerMatcher.Match
TriggerMatch(program, ctx) ==
    LET rs == ExprRun(program, ctx)
    IN  IF rs.err # "nil" THEN [val |-> FALSE, err |-> rs.err]
        ELSE IF rs.val \in BOOLEAN THEN [val |-> rs.val, err |-> "nil"]
        ELSE [val |-> FALSE, err |-> "InvalidReturnVal"]

\* a trigger matcher is built from an action's condition
BuildTrigger(c) ==
    /\ trigger' = LET m == NewTriggerMatcher(c)
                  IN  [state |-> IF m.err THEN "failed" ELSE "built",
                       condition |-> c, program |-> m.program,
                       ctx |-> NoContext, res |-> NoResult]
    /\ UNCHANGED <<aggVars, now, lockVars, tc, agent, mm, cut, conn>>

\* Match is called on the matcher with a trigger context
RunTrigger(ctx) ==
    /\ trigger.state \in {"built", "matched"}
    /\ trigger' = [trigger EXCEPT !.state = "matched", !.ctx = ctx,
                                  !.res = TriggerMatch(trigger.program, ctx)]
    /\ UNCHANGED <<aggVars, now, lockVars, tc, agent, mm, cut, conn>>

InitTrigger == trigger = NoTrigger

\* ------------------------------------------------------- TriggerContext
\* a context fresh from NewTriggerContext: the once flag is not set, the
\* messages field is nil; stored is the number of messages the group holds,
\* fetched and returned record what the callback and Messages() handed out
NoTC == [callback |-> "nil", once |-> FALSE, messages |-> <<>>,
         stored |-> 0, fetched |-> <<>>, returned |-> <<>>]

\* tc.MessageCallback(): the messages the group holds now
MessageCallback(n) == [i \in 1 .. n |-> i]

\* a Messages() that asks the callback on every call
MessagesEveryCall(c) ==
    IF c.callback # "nil"
    THEN [c EXCEPT !.once = TRUE,
                   !.messages = MessageCallback(c.stored),
                   !.fetched = Append(@, MessageCallback(c.stored))]
    ELSE [c EXCEPT !.once = TRUE]

\* TriggerContext.Messages up to its return: messageCallbackOnce.Do(...)
Messages(c) ==
    IF c.once THEN c
    ELSE IF c.callback # "nil"
    THEN [c EXCEPT !.once = TRUE,
                   !.messages = MessageCallback(c.stored),
                   !.fetched = Append(@, MessageCallback(c.stored))]
    ELSE [c EXCEPT !.once = TRUE]

\* NewTriggerContext for a new evaluation, with or without a callback
NewTriggerContext(cb) ==
    /\ tc' = [NoTC EXCEPT !.callback = cb, !.stored = tc.stored]
    /\ UNCHANGED <<aggVars, now, lockVars, trigger, agent, mm, cut, conn>>

\* an expression calls Messages(); return tc.messages
CallMessages ==
    /\ Len(tc.returned) < MaxCalls
    /\ tc' = [Messages(tc) EXCEPT !.returned = Append(@, Messages(tc).messages)]
    /\ UNCHANGED <<aggVars, now, lockVars, trigger, agent, mm, cut, conn>>

\* an event joins the group while the evaluation is under way
GroupGrows ==
    /\ tc.stored < MaxStored
    /\ tc' = [tc EXCEPT !.stored = @ + 1]
    /\ UNCHANGED <<aggVars, now, lockVars, trigger, agent, mm, cut, conn>>

InitContext == tc = NoTC

\* ------------------------------------------- agent, MessageController
StatusOK == 200
StatusUnprocessableEntity == 422
StatusInternalServerError == 500

\* request bodies: a well-formed common message of some payload, or a body
\* that does not parse
Bodies ==
    {[valid |-> TRUE, kind |-> k] : k \in Kinds} \cup {[valid |-> FALSE, kind |-> 0]}

NoRequest == [body |-> [valid |-> FALSE, kind |-> 0], fail |-> FALSE, status |-> 0]

\* ctx.Unmarshal(&commonMessage)
Unmarshal(body) ==
    IF body.valid THEN [err |-> FALSE, msg |-> body.kind] ELSE [err |-> TRUE, msg |-> 0]

\* msgRepo.Enqueue(&req): the queue afterwards, and whether it failed
Enqueue(queue, data, fail) ==
    IF fail THEN [err |-> TRUE, queue |-> queue]
    ELSE [err |-> FALSE, queue |-> Append(queue, data)]

\* a saveMessage that answers 200 whatever Enqueue returned
saveMessageDeaf(queue, commonMessage, fail) ==
    [status |-> StatusOK, queue |-> Enqueue(queue, commonMessage, fail).queue]

\* MessageController.saveMessage: the response and the queue afterwards
saveMessage(queue, commonMessage, fail) ==
    LET r == Enqueue(queue, commonMessage, fail)
    IN  IF r.err THEN [status |-> StatusInternalServerError, queue |-> r.queue]
        ELSE [status |-> StatusOK, queue |-> r.queue]

\* MessageController.AddCommonMessage on a request body; fail: the local
\* store refuses the write
AddCommonMessage(body, fail) ==
    /\ Len(agent.queue) < MaxQueue
    /\ LET u == Unmarshal(body)
           r == saveMessage(agent.queue, u.msg, fail)
       IN  agent' =
             IF u.err
             THEN [queue |-> agent.queue,
                   last |-> [body |-> body, fail |-> fail,
                             status |-> StatusUnprocessableEntity]]
             ELSE [queue |-> r.queue,
                   last |-> [body |-> body, fail |-> fail, status |-> r.status]]
    /\ UNCHANGED <<aggVars, now, lockVars, trigger, tc, mm, cut, conn>>

InitAgent == agent = [queue |-> <<>>, last |-> NoRequest]

\* ------------------------------------------------------- MessageMatcher
\* the tags an event carries or a match expression names
TagNames == {"php", "nodejs", "java", "go"}

\* a rule without ignore expression
NoIgnore == [op |-> "none", tag |-> ""]
NoRule == [Rule |-> [op |-> "none", tag |-> ""], IgnoreRule |-> NoIgnore]

\* repository.Rule{Rule: ...}: a membership test on Tags, or a text that
\* does not compile
TagRules ==
    [Rule : [op : {"in", "notin"}, tag : TagNames], IgnoreRule : {NoIgnore}]
    \cup {[Rule |-> [op |-> "invalid", tag |-> "xxxxxxx"], IgnoreRule |-> NoIgnore]}

NoMatcher == [nil |-> TRUE, rule |-> NoRule, program |-> NoRule.Rule]
NoMatch == [matched |-> FALSE, err |-> FALSE]
NoMM == [state |-> "none", rule |-> NoRule, matcher |-> NoMatcher,
         msg |-> [Tags |-> {}], res |-> NoMatch, ruleOut |-> NoRule]

\* rule.NewMessageMatcher(ru): the compiled program and the rule itself
NewMatcher(ru) ==
    IF Compiles(ru.Rule)
    THEN [nil |-> FALSE, rule |-> ru, program |-> ru.Rule]
    ELSE NoMatcher

\* a Match that reads "not in" as "in"
MatcherMatchDropsNot(m, msg) ==
    LET rs == Eval([m.program EXCEPT !.op = "in"], msg)
    IN  [matched |-> ~rs.err /\ rs.val, err |-> rs.err]

\* matcher.Match(msg): (matched, err)
MatcherMatch(m, msg) ==
    LET rs == Eval(m.program, msg)
    IN  [matched |-> ~rs.err /\ rs.val, err |-> rs.err]

\* matcher.Rule()
MatcherRule(m) == m.rule

\* a matcher is built from a rule
BuildMatcher(ru) ==
    /\ mm' = LET m == NewMatcher(ru)
             IN  [NoMM EXCEPT !.state = IF m.nil THEN "failed" ELSE "built",
                              !.rule = ru, !.matcher = m]
    /\ UNCHANGED <<aggVars, now, lockVars, trigger, tc, agent, cut, conn>>

\* the matcher is run on an event and asked for its rule
RunMatcher(tags) ==
    /\ mm.state \in {"built", "matched"}
    /\ mm' = [mm EXCEPT !.state = "matched", !.msg = [Tags |-> tags],
                        !.res = MatcherMatch(mm.matcher, [Tags |-> tags]),
                        !.ruleOut = MatcherRule(mm.matcher)]
    /\ UNCHANGED <<aggVars, now, lockVars, trigger, tc, agent, cut, conn>>

InitMatcher == mm = NoMM

\* ------------------------------------------ GroupController, group cut
KeepDefault == 20
KeepMax == 1000

\* a path variable that is no object id in hex
BadHex == -1

\* the query input "keep": absent, or a number
KeepInputs ==
    {[present |-> FALSE, value |-> 0]}
    \cup {[present |-> TRUE, value |-> v] : v \in {-1, 0, 1, KeepMax, KeepMax + 1}}

\* webCtx.Int64Input(key, defaultVal)
Int64Input(in, defaultVal) == IF in.present THEN in.value ELSE defaultVal

\* no call yet: no response, no reduce event on the bus
NoCut == [status |-> 0, deleted_count |-> 0, reduce |-> <<>>]

\* the events that carry the group id
EventsOf(g) ==
    {e \in Events : \E i \in 1 .. Len(events[e].group_ids) : events[e].group_ids[i] = g}

\* evtGroupSvc.CutGroup(ctx, groupID, keepCount): the latest keepCount
\* events of the group stay, the others are deleted; the store after the
\* call and the number of events deleted
CutGroup(g, keepCount) ==
    LET mine == EventsOf(g)
        gone == {e \in mine : Cardinality({d \in mine : d > e}) >= keepCount}
    IN  [store |-> [e \in Events |->
                      IF e \in gone
                      THEN [status |-> "deleted", group_ids |-> <<>>, kind |-> events[e].kind]
                      ELSE events[e]],
         deletedCount |-> Cardinality(gone)]

\* the store call of the handler that fails, if any
CutFailures == {"none", "Get", "CutGroup"}

\* a test that lets a pending group be cut
NotCuttableCollecting(status) == status = "collecting"

\* grp.Status == EventGroupStatusCollecting || grp.Status == EventGroupStatusPending
NotCuttable(status) == status \in {"collecting", "pending"}

\* webCtx.JSONError(..., code): nothing else happens
Refuse(code) ==
    /\ cut' = [cut EXCEPT !.status = code, !.deleted_count = 0]
    /\ UNCHANGED <<events, groups, stable>>

\* a handler that stamps the number of events left on the group
CutGroupEventsStamps(id, keep) ==
    /\ id \in GroupIds
    /\ ~NotCuttable(groups[id].status)
    /\ LET res == CutGroup(id, Int64Input(keep, KeepDefault))
       IN  /\ events' = res.store
           /\ groups' = [groups EXCEPT ![id].message_count = @ - res.deletedCount]
           /\ cut' = [cut EXCEPT !.status = StatusOK,
                                 !.deleted_count = res.deletedCount]
    /\ stable' = Track(0)
    /\ UNCHANGED <<ruleEnabled, now, published, nodeOf, executing, job, faults>>
    /\ UNCHANGED <<lockVars, trigger, tc, agent, mm, conn>>

\* GroupController.CutGroupEvents on one request, with the store call
\* that fails
CutGroupEventsOn(id, keep, fail) ==
    /\   LET keepCount == Int64Input(keep, KeepDefault)
         IN  IF id = BadHex
             THEN Refuse(StatusUnprocessableEntity)
             ELSE IF fail = "Get" \/ id \notin GroupIds
             THEN Refuse(StatusInternalServerError)
             ELSE IF NotCuttable(groups[id].status)
             THEN Refuse(StatusUnprocessableEntity)
             ELSE IF keepCount < 0 \/ keepCount > KeepMax
             THEN Refuse(StatusUnprocessableEntity)
             ELSE IF fail = "CutGroup"
             THEN Refuse(StatusInternalServerError)
             ELSE LET res == CutGroup(id, keepCount)
                  IN  /\ events' = res.store
                      /\ cut' = [cut EXCEPT
                            !.status = StatusOK,
                            !.deleted_count = res.deletedCount,
                            !.reduce = IF res.deletedCount > 0
                                       THEN Append(@, [GroupID |-> id,
                                                       KeepCount |-> keepCount,
                                                       DeleteCount |-> res.deletedCount])
                                       ELSE @]
                      /\ stable' = Track(0)
                      /\ UNCHANGED groups
    /\ UNCHANGED <<ruleEnabled, now, published, nodeOf, executing, job, faults>>
    /\ UNCHANGED <<lockVars, trigger, tc, agent, mm, conn>>

\* GroupController.CutGroupEvents: DELETE /{id}/reduce/?keep=
CutGroupEvents(id, keep) == \E fail \in CutFailures : CutGroupEventsOn(id, keep, fail)

\* the trigger pass is through with a pending group
TriggerDone(g) ==
    /\ g \in GroupIds
    /\ groups[g].status = "pending"
    /\ groups' = [groups EXCEPT ![g].status = "okay"]
    /\ stable' = Track(0)
    /\ UNCHANGED <<events, ruleEnabled, now, published, nodeOf, executing, job, faults>>
    /\ UNCHANGED <<lockVars, sideVars>>

InitCutter == cut = NoCut

\* ------------------------------------------------------------- Connector
Servers == 1 .. NumServers

\* the server lists a Connector can be built with: any number of servers,
\* none listed twice
ServerLists ==
    {l \in UNION {[1 .. n -> Servers] : n \in 0 .. NumServers} :
        \A i, j \in 1 .. Len(l) : l[i] = l[j] => i = j}

\* the status codes of a server's response
Statuses == {StatusOK, StatusUnprocessableEntity, StatusInternalServerError}

\* what one POST /api/events/ runs into: the call of sendEventToServer that
\* fails, if any, and the status of the response once there is one
Replies ==
    {[fails |-> "NewRequest", status |-> 0], [fails |-> "Do", status |-> 0]}
    \cup {[fails |-> f, status |-> st] : f \in {"ReadAll", "none"}, st \in Statuses}

NoError == [server |-> 0, msg |-> "nil"]

\* the server has stored the event: it answered 200
Accepted(reply) == reply.status = StatusOK

\* sendEventToServer: the error it returns
sendEventToServer(s, reply) ==
    IF reply.fails = "NewRequest" THEN [server |-> s, msg |-> "create request failed"]
    ELSE IF reply.fails = "Do" THEN [server |-> s, msg |-> "request failed"]
    ELSE IF reply.fails = "ReadAll" THEN [server |-> s, msg |-> "read response body failed"]
    ELSE NoError

NoSend == [pc |-> "idle", servers |-> <<>>, i |-> 1, err |-> NoError,
           tried |-> <<>>, stored |-> {}]

\* Send is called: `var err error`, and the loop is entered; with no server
\* it returns err at once
Send(servers) ==
    /\ conn.pc # "loop"
    /\ conn' = [NoSend EXCEPT !.servers = servers,
                              !.pc = IF servers = <<>> THEN "done" ELSE "loop"]
    /\ UNCHANGED <<aggVars, now, lockVars, trigger, tc, agent, mm, cut>>

\* one iteration of the loop of Send: break on a nil error, return after
\* the last server
SendLoop(reply) ==
    /\ conn.pc = "loop"
    /\ LET s == conn.servers[conn.i]
           err == sendEventToServer(s, reply)
       IN  conn' = [conn EXCEPT
                !.err = err,
                !.tried = Append(@, s),
                !.stored = IF Accepted(reply) THEN @ \cup {s} ELSE @,
                !.i = @ + 1,
                !.pc = IF err = NoError \/ conn.i = Len(conn.servers)
                       THEN "done" ELSE "loop"]
    /\ UNCHANGED <<aggVars, now, lockVars, trigger, tc, agent, mm, cut>>

InitConnector == conn = NoSend

InitSide == InitTrigger /\ InitContext /\ InitAgent /\ InitMatcher /\ InitCutter /\ InitConnector

\* ------------------------------------------------------- specification
InitLock ==
    /\ lease = None
    /\ nextLease = 1
    /\ locked = [n \in Nodes |-> FALSE]
    /\ lockID = [n \in Nodes |-> NilObjectID]
    /\ lastErr = [n \in Nodes |-> "nil"]
    /\ leasedAt = 0
    /\ lpc = [n \in Nodes |-> "idle"]

\* the stores are empty, rule 1 exists, every Handle caller is idle
InitStore ==
    /\ events = [e \in Events |-> [status |-> "absent", group_ids |-> <<>>, kind |-> 1]]
    /\ groups = <<>>
    /\ ruleEnabled = [r \in Rules |-> r = 1]
    /\ now = 0
    /\ published = {}
    /\ executing = [n \in Nodes |-> 0]
    /\ job = [w \in Workers |-> Idle]
    /\ stable = 0

\* one node, whose scheduler may call Handle from two goroutines; the store
\* may fail MaxFaults times
Init ==
    /\ InitStore
    /\ nodeOf = [w \in Workers |-> 1]
    /\ faults = MaxFaults
    /\ InitLock
    /\ InitSide

Step(w) ==
    \/ HandleStart(w)
    \/ GroupingStart(w)
    \/ P1Match(w)
    \/ P1Persist(w)
    \/ P1Finish(w)
    \/ P2Visit(w)
    \/ P2Finish(w)
    \/ P3Count(w)
    \/ P3Update(w)
    \/ P3Finish(w)
    \/ HandleReturn(w)

Next ==
    \/ \E w \in Workers : Step(w)
    \/ \E w \in Workers : HandleSkip(w)
    \/ \E e \in Events, k \in {1, 3, 4} : Ingress(e, k)
    \/ \E r \in {1, 2} : EnableRule(r)
    \/ Tick

Spec == Init /\ [][Next]_vars

\* two nodes that both believe they hold the lease, one Handle caller each;
\* the store may fail MaxFaults times
InitTwoNodes ==
    /\ InitStore
    /\ nodeOf = [w \in Workers |-> w]
    /\ faults = MaxFaults
    /\ InitLock
    /\ InitSide

NextTwoNodes ==
    \/ \E w \in Workers : Step(w)
    \/ \E e \in Events, k \in {1, 4} : Ingress(e, k)
    \/ Tick

SpecTwoNodes == InitTwoNodes /\ [][NextTwoNodes]_vars

\* the lock managers of two nodes on one lock store that may fail
NextLock ==
    \/ \E n \in Nodes : TryLock(n)
    \/ \E n \in Nodes : TryLockAgain(n)
    \/ \E n \in Nodes : TryUnLock(n)
    \/ LockTick

SpecLock == Init /\ [][NextLock]_vars

\* the lock managers of two nodes on a lock store that answers every call
InitFailover ==
    /\ InitStore
    /\ nodeOf = [w \in Workers |-> w]
    /\ faults = 0
    /\ InitLock
    /\ InitSide

SpecFailover == InitFailover /\ [][NextLock]_vars

\* ------------------------------------------------------------ the claims
Payload(e) == Payloads[events[e].kind]

\* rule r matches the payload genuinely: matched, not ignored, no error
Genuine(r, p) == ~Match(r, p).err /\ Match(r, p).matched /\ ~Match(r, p).ignored

\* rule r matches the payload with the ignore flag
Soft(r, p) == ~Match(r, p).err /\ Match(r, p).matched /\ Match(r, p).ignored

SameTriple(g, h) ==
    /\ groups[g].rule = groups[h].rule
    /\ groups[g].aggregate_key = groups[h].aggregate_key
    /\ groups[g].type = groups[h].type

\* C1: in every reachable state of two nodes running Handle concurrently,
\* no two groups with status collecting share (rule id, aggregate key,
\* event type).
C1_OneCollectingPerTriple ==
    \A g, h \in GroupIds :
        (/\ groups[g].status = "collecting"
         /\ groups[h].status = "collecting"
         /\ SameTriple(g, h)) => g = h

\* both nodes are inside Pass 1 and both hold the same collecting group in
\* their map, while an earlier group of the triple has left collecting
C1_Witness ==
    /\ job[1].pc = "p1" /\ job[2].pc = "p1"
    /\ \E g, h \in GroupIds :
         /\ groups[g].status = "collecting"
         /\ groups[h].status = "pending"
         /\ SameTriple(g, h)
         /\ \A w \in Workers :
              \E i \in 1 .. Len(job[w].collectingGroups) : job[w].collectingGroups[i].id = g

\* the status the decision matrix gives a message under the matchers ms
Expected(ms, p) ==
    IF \E i \in 1 .. Len(ms) : Genuine(ms[i], p) THEN "grouped"
    ELSE IF \E i \in 1 .. Len(ms) : Soft(ms[i], p) THEN "ignored"
    ELSE "canceled"

\* Pass 1 has persisted its current message in this step
Persisted(w) == P1Persist(w) /\ job'[w].pc = "p1"

\* C2: whenever Pass 1 persists a pending event, the stored status is
\* grouped iff an enabled rule matched it genuinely, else ignored iff an
\* enabled rule matched it with the ignore flag, else canceled; it is never
\* pending.
C2_DecisionMatrix ==
    [][\A w \in Workers :
         Persisted(w) =>
            /\ events'[job[w].msg.id].status =
                  Expected(job[w].matchers, Payload(job[w].msg.id))
            /\ events'[job[w].msg.id].status \in {"grouped", "ignored", "canceled"}]_vars

\* a tick is through that stored an ignored event and an event grouped
\* under two rules
C2_Witness ==
    /\ \E e \in Events : events[e].status = "ignored"
    /\ \E e \in Events : events[e].status = "grouped" /\ Len(events[e].group_ids) = 2
    /\ \E w \in Workers : job[w].pc = "done"

\* C3: every event with status grouped has a non-empty group-ids sequence
\* and each id in it is the id of a stored group whose rule matches the
\* event genuinely.
C3_GroupedRefs ==
    \A e \in Events :
        events[e].status = "grouped" =>
            /\ events[e].group_ids # <<>>
            /\ \A i \in 1 .. Len(events[e].group_ids) :
                 /\ events[e].group_ids[i] \in GroupIds
                 /\ Genuine(groups[events[e].group_ids[i]].rule, Payload(e))

\* a tick is through and left an event in the groups of two rules
C3_Witness ==
    /\ \E w \in Workers : job[w].pc = "done"
    /\ \E e \in Events :
         /\ events[e].status = "grouped"
         /\ Len(events[e].group_ids) = 2
         /\ groups[events[e].group_ids[1]].rule # groups[events[e].group_ids[2]].rule

\* the tick of w is through and the rules are those it loaded
TickDone(w) == job[w].pc = "done" /\ job[w].matchers = initializeMatchers

\* C4: when a tick is through and the rule set is the one the tick loaded,
\* no event with status canceled is matched by the match expression of an
\* enabled rule.
C4_CanceledUnmatched ==
    \A w \in Workers :
        TickDone(w) =>
            \A e \in Events :
                events[e].status = "canceled" =>
                    \A r \in Rules :
                        ruleEnabled[r] => Match(r, Payload(e)).err \/ ~Match(r, Payload(e)).matched

\* a tick is through, with a rule enabled, that left an event canceled
C4_Witness ==
    \E w \in Workers :
        /\ TickDone(w)
        /\ \E e \in Events : events[e].status = "canceled"
        /\ \E r \in Rules : ruleEnabled[r]

\* C5 as claimed: whenever Pass 3 moves a group from collecting to pending,
\* the stored event-count is the number of events whose group-ids hold the
\* group's id at that instant, whatever the count query answered.
C5_CountAtTransition ==
    [][\A w \in Workers :
         (P3Update(w) /\ job'[w].pc = "p3") =>
            LET g == Head(job[w].todo).id
            IN  groups'[g].status = "pending" /\ groups'[g].message_count = CountMessages(g)]_vars

\* C6: once a complete run has seen the input, and while no event arrives,
\* no rule changes and the clock stands, no step of a later run changes
\* an event or a group.
C6_Idempotent ==
    [][(SingleNode /\ stable = 2 /\ stable' = 2) => (events' = events /\ groups' = groups)]_vars

\* a second run on the unchanged input is visiting a canceled event, with a
\* grouped event and a pending group in the store
C6_Witness ==
    /\ stable = 2
    /\ \E w \in Workers : job[w].pc = "p2" /\ job[w].todo # <<>>
    /\ \E e \in Events : events[e].status = "grouped"
    /\ \E g \in GroupIds : groups[g].status = "pending"

\* C7: on each node at most one Handle call is inside the passes.
C7_SingleFlight ==
    \A n \in Nodes : Cardinality({w \in Workers : nodeOf[w] = n /\ Running(w)}) <= 1

\* one caller is inside Pass 1 while the other caller of the node is at the select
C7_Witness ==
    \E v, w \in Workers :
        /\ v # w /\ nodeOf[v] = nodeOf[w]
        /\ job[v].pc = "p1" /\ job[v].todo # <<>>
        /\ job[w].pc = "idle"
        /\ ~SlotFree(nodeOf[w])

\* HasLock as a caller can observe it: outside the node's TryLock
Observes(n) == lpc[n] = "idle" /\ HasLock(n)

\* C8 as claimed: at most one node's lock manager reports HasLock() = true.
C8_OneLeader ==
    \A a, b \in Nodes : (Observes(a) /\ Observes(b)) => a = b

\* C9 as claimed: whenever HasLock() is true on a node, the lock store holds
\* a lease with that node's lock id whose expires-at is strictly in the
\* future.
C9_LockedImpliesLive ==
    \A n \in Nodes :
        Observes(n) => (lease # None /\ lease.lock_id = lockID[n] /\ lease.expires_at > now)

\* TryLock of node b returns in this step
Returns(b) == (TryLock(b) \/ TryLockAgain(b)) /\ lpc'[b] = "idle"

\* C10: while node a's lease is in the store, a TryLock of another node b
\* that returns less than 90 s after a last acquired or renewed the lease
\* leaves b with HasLock() false, and one that returns 90 s or more after it
\* leaves b with HasLock() true.
C10_Failover ==
    [][\A a, b \in Nodes :
         (a # b /\ lease # None /\ lease.owner = a /\ Returns(b)) =>
            (HasLock(b)' <=> now >= leasedAt + 90)]_vars

\* node 2 holds the lease it took over from node 1, whose lease ran out
\* while node 1 still has locked = true
C10_Witness ==
    /\ lease # None /\ lease.owner = 2 /\ lease.lock_id = 2
    /\ HasLock(2) /\ lockID[2] = 2
    /\ HasLock(1) /\ lockID[1] = 1
    /\ now >= 90

\* TryLock of node n returns an error in this step
ReturnsErr(n) == Returns(n) /\ lastErr'[n] # "nil"

\* C11 as claimed: whenever TryLock returns an error (Renew or Lock failed
\* with a store error), HasLock() is false on that node afterwards.
C11_ErrorDemotes ==
    [][\A n \in Nodes : ReturnsErr(n) => ~HasLock(n)']_vars

\* C12: when the store's UnLock fails inside TryUnLock while the store holds
\* the node's lease, TryUnLock returns that error, HasLock() is false
\* afterwards and the remembered lock id is the nil id.
C12_UnLockErrorDemotes ==
    [][\A n \in Nodes :
         (/\ TryUnLock(n)
          /\ lease # None /\ lease.lock_id = lockID[n]
          /\ lastErr'[n] # "nil") =>
            /\ lastErr'[n] = RepoUnLock(lockID[n], TRUE).err
            /\ ~HasLock(n)'
            /\ lockID'[n] = NilObjectID]_vars

\* a node's TryUnLock has failed while its live lease stays in the store
C12_Witness ==
    \E n \in Nodes :
        /\ lastErr[n] = "error"
        /\ ~HasLock(n) /\ lockID[n] = NilObjectID
        /\ Live /\ lease.owner = n

\* ------------------------------------------- the scheduler and the lease
\* the cron manager starts a scheduled Handle on a node only while the
\* node's lock manager reports HasLock(); the steps of a started Handle
\* follow without a further look at the lock
CronStep(w) ==
    /\ job[w].pc = "idle" => Observes(nodeOf[w])
    /\ Step(w)

\* two nodes that stay up, each with its lock manager and its scheduled
\* aggregation job, on a store that answers every call; the ingress sends
\* one event rule 1 groups, then one no rule matches
InitCron ==
    /\ InitStore
    /\ nodeOf = [w \in Workers |-> w]
    /\ faults = 0
    /\ InitLock
    /\ InitSide

NextCron ==
    \/ \E w \in Workers : CronStep(w)
    \/ \E n \in Nodes : TryLock(n)
    \/ \E n \in Nodes : TryLockAgain(n)
    \/ \E e \in Events : Ingress(e, IF e = 1 THEN 1 ELSE 4)
    \/ LockTick

SpecCron == InitCron /\ [][NextCron]_vars

\* C13 as claimed: a step of Handle changes the event store or the group
\* store only while HasLock() is true on the node the job runs on.
C13_MutatesOnlyAsLeader ==
    [][\A w \in Workers :
         (Step(w) /\ (events' # events \/ groups' # groups)) =>
            HasLock(nodeOf[w])]_vars

\* ------------------------------------------ a rule that does not compile
\* one node on a store that answers every call; an operator enables rule 3,
\* whose match expression does not compile
NextInvalidRule ==
    \/ \E w \in Workers : Step(w)
    \/ \E e \in Events, k \in {1, 4} : Ingress(e, k)
    \/ EnableRule(3)
    \/ Tick

InitInvalidRule ==
    /\ InitStore
    /\ nodeOf = [w \in Workers |-> 1]
    /\ faults = 0
    /\ InitLock
    /\ InitSide

SpecInvalidRule == InitInvalidRule /\ [][NextInvalidRule]_vars

\* C14 as claimed: with an enabled rule whose match expression does not
\* compile, and no store call failing, a tick that is inside Pass 1 or
\* Pass 2 does not crash: no step ends the run there.
C14_InvalidRuleSkipped ==
    [][\A w \in Workers :
         (job[w].pc \in {"p1", "p2"} /\ faults' = faults) => job'[w].pc # "idle"]_vars

\* --------------------------------------------- expressions that go wrong
\* one node on a store that answers every call; rule 4, whose match
\* expression fails at run time on an event without tags and whose aggregate
\* expression does not compile, and rule 5, whose aggregate expression fails
\* at run time, are enabled; an operator may enable rule 2
InitExprErr ==
    /\ events = [e \in Events |-> [status |-> "absent", group_ids |-> <<>>, kind |-> 1]]
    /\ groups = <<>>
    /\ ruleEnabled = [r \in Rules |-> r \in {4, 5}]
    /\ now = 0
    /\ published = {}
    /\ executing = [n \in Nodes |-> 0]
    /\ job = [w \in Workers |-> Idle]
    /\ stable = 0
    /\ nodeOf = [w \in Workers |-> 1]
    /\ faults = 0
    /\ InitLock
    /\ InitSide

NextExprErr ==
    \/ \E w \in Workers : Step(w)
    \/ \E e \in Events, k \in {2, 3, 4} : Ingress(e, k)
    \/ EnableRule(2)
    \/ Tick

SpecExprErr == InitExprErr /\ [][NextExprErr]_vars

\* the matchers whose match expression runs without error on the payload
Sound(ms, p) == SelectSeq(ms, LAMBDA r : ~Match(r, p).err)

\* C15: a matcher whose Match returns a runtime error on the event adds no
\* group id and no ignore flag and the loop goes on to the next matcher;
\* the status Pass 1 stores for such an event is the one the matchers
\* without error give it, with one group id per genuine match among them;
\* Pass 2 expires such an event iff a matcher without error matches it.
C15_RuntimeErrorNoMatch ==
    [][\A w \in Workers :
         LET j == job[w]
             p == Payload(j.msg.id)
             d == Head(j.todo)
         IN  /\ (P1Match(w) /\ Match(j.matchers[j.mi], p).err) =>
                   /\ job'[w].pc = "p1" /\ job'[w].mi = j.mi + 1
                   /\ job'[w].msg = j.msg
                   /\ job'[w].messageCanIgnore = j.messageCanIgnore
                   /\ groups' = groups
             /\ (Persisted(w) /\ \E i \in 1 .. Len(j.matchers) : Match(j.matchers[i], p).err) =>
                   /\ events'[j.msg.id].status = Expected(Sound(j.matchers, p), p)
                   /\ Len(events'[j.msg.id].group_ids) =
                        Cardinality({i \in 1 .. Len(j.matchers) : Genuine(j.matchers[i], p)})
             /\ (/\ P2Visit(w) /\ job'[w].pc = "p2"
                 /\ \E i \in 1 .. Len(j.matchers) : Match(j.matchers[i], Payload(d.id)).err) =>
                   events'[d.id].status =
                       IF \E i \in 1 .. Len(Sound(j.matchers, Payload(d.id))) :
                            Match(Sound(j.matchers, Payload(d.id))[i], Payload(d.id)).matched
                       THEN "expired" ELSE "canceled"]_vars

\* a tick whose matchers include rules 2 and 4 is through; an event without
\* tags, on which rule 4 fails, is grouped under rule 2 alone
C15_Witness ==
    \E w \in Workers, e \in Events :
        /\ job[w].pc = "done"
        /\ \E i, k \in 1 .. Len(job[w].matchers) : job[w].matchers[i] = 2 /\ job[w].matchers[k] = 4
        /\ events[e].kind = 4 /\ events[e].status = "grouped"
        /\ Len(events[e].group_ids) = 1
        /\ groups[events[e].group_ids[1]].rule = 2

\* the groups an event is a member of
GroupsOf(e) == {events[e].group_ids[i] : i \in 1 .. Len(events[e].group_ids)}

\* how the aggregate expression of a group's rule goes on the event
FingerErr(g, e) == FingerRun(RuleTable[groups[g].rule].AggregateRule, Payload(e)).err

\* C16: BuildMessageFinger returns the evaluated key when the aggregate
\* expression compiles and runs, and a key beginning with "[error]" when it
\* does not compile or fails at run time; grouped events of one rule and
\* type whose fingerprint fails the same way are in groups with one and the
\* same key, and in the same group while it is collecting.
C16_FingerNeverFails ==
    /\ \A r \in Rules, k \in Kinds :
         LET f == FingerRun(RuleTable[r].AggregateRule, Payloads[k])
             key == BuildMessageFinger(RuleTable[r].AggregateRule, Payloads[k])
         IN  IF f.err = "nil" THEN key = f.key
             ELSE \E s \in {"invalid_rule", "parse_failed"} : key = "[error]" \o s
    /\ \A e, f \in Events :
         \A g \in GroupsOf(e), h \in GroupsOf(f) :
             (/\ groups[g].rule = groups[h].rule
              /\ groups[g].type = groups[h].type
              /\ FingerErr(g, e) # "nil"
              /\ FingerErr(g, e) = FingerErr(h, f)) =>
                /\ groups[g].aggregate_key = groups[h].aggregate_key
                /\ groups[g].aggregate_key =
                     BuildMessageFinger(RuleTable[groups[g].rule].AggregateRule, Payload(e))
                /\ (groups[g].status = "collecting" /\ groups[h].status = "collecting") => g = h

\* two events with different Meta[server] are in one group of rule 4, whose
\* key is the sentinel of the aggregate expression that does not compile,
\* and in one group of rule 5, whose key is the sentinel of the run failure
C16_Witness ==
    \E e, f \in Events :
        /\ Payload(e).server # Payload(f).server
        /\ events[e].status = "grouped" /\ events[f].status = "grouped"
        /\ \E g \in GroupsOf(e) \cap GroupsOf(f) :
             groups[g].rule = 4 /\ groups[g].aggregate_key = "[error]invalid_rule"
        /\ \E g \in GroupsOf(e) \cap GroupsOf(f) :
             groups[g].rule = 5 /\ groups[g].aggregate_key = "[error]parse_failed"

\* ------------------------------------------- keys and types with a colon
\* one node on a store that answers every call, rule 1 enabled; the ingress
\* sends events whose Meta[server] or Type hold a ':'
InitColon ==
    /\ InitStore
    /\ nodeOf = [w \in Workers |-> 1]
    /\ faults = 0
    /\ InitLock
    /\ InitSide

NextColon ==
    \/ \E w \in Workers : Step(w)
    \/ \E e \in Events, k \in {1, 2, 4} : Ingress(e, k)
    \/ Tick

SpecColon == InitColon /\ [][NextColon]_vars

\* C17 as claimed: two events get the same group only if their (rule id,
\* aggregate key, event type) are equal: every group a grouped event is a
\* member of carries the event's own aggregate key and type under the
\* group's rule, also when a key or a type holds a ':'.
C17_SameGroupIffSameTriple ==
    \A e \in Events :
        events[e].status = "grouped" =>
            \A g \in GroupsOf(e) :
                /\ groups[g].aggregate_key =
                     BuildMessageFinger(RuleTable[groups[g].rule].AggregateRule, Payload(e))
                /\ groups[g].type = Payload(e).Type

\* Pass 1 of w adds a group id to the message in hand in this step
Assigns(w) == P1Match(w) /\ job'[w].pc = "p1" /\ job'[w].msg.group_ids # job[w].msg.group_ids

\* C18 as claimed: whenever Pass 1 assigns a group id to an event, the group
\* of that id has status collecting; an id of a group that has left
\* collecting is never assigned, also while another node runs Pass 3.
C18_NoAssignAfterCollecting ==
    [][\A w \in Workers :
         Assigns(w) =>
            LET ids == job'[w].msg.group_ids
            IN  groups'[ids[Len(ids)]].status = "collecting"]_vars

Terminal == {"grouped", "ignored", "expired"}

\* C19 as claimed: an event whose status is grouped, ignored or expired
\* keeps its status and its group ids in every step.
C19_TerminalStatuses ==
    [][\A e \in Events :
         events[e].status \in Terminal =>
            /\ events'[e].status = events[e].status
            /\ events'[e].group_ids = events[e].group_ids]_vars

\* ------------------------------------------------------ trigger matchers
\* matchers are built from the conditions and run on the contexts
NextTrigger ==
    \/ \E c \in Conditions : BuildTrigger(c)
    \/ \E ctx \in Contexts : RunTrigger(ctx)

SpecTrigger == Init /\ [][NextTrigger]_vars

\* C20: a trigger matcher for an empty condition is built without error,
\* and Match on it returns (true, no error) for every trigger context.
C20_EmptyConditionTrue ==
    (trigger.state # "none" /\ trigger.condition = "") =>
        /\ trigger.state # "failed"
        /\ trigger.state = "matched" => trigger.res = [val |-> TRUE, err |-> "nil"]

\* the matcher of an empty condition has been run on a context without
\* messages in which the action was triggered before
C20_Witness ==
    /\ trigger.condition = "" /\ trigger.state = "matched"
    /\ trigger.ctx.messages = 0 /\ trigger.ctx.triggered > 0

\* ----------------------------------------------------- trigger contexts
NextContext ==
    \/ \E cb \in {"nil", "set"} : NewTriggerContext(cb)
    \/ CallMessages
    \/ GroupGrows

SpecContext == Init /\ [][NextContext]_vars

\* C21: within one evaluation the callback is invoked at most once, every
\* Messages() call returns what that first invocation fetched, and without
\* a callback nothing is fetched and every call returns the empty result.
C21_MessagesOnce ==
    /\ Len(tc.fetched) <= 1
    /\ tc.callback = "nil" => tc.fetched = <<>>
    /\ \A i \in 1 .. Len(tc.returned) :
         tc.returned[i] = IF tc.callback = "nil" THEN <<>> ELSE tc.fetched[1]

\* Messages() was called three times on a context with a callback, and the
\* group has grown since the first call
C21_Witness ==
    /\ tc.callback = "set"
    /\ Len(tc.returned) >= 3
    /\ tc.stored > Len(tc.fetched[1])

\* the run of w ends in this step before its passes are through
Aborts(w) == job[w].pc \notin {"idle", "done"} /\ job'[w].pc = "idle"

\* C22 as claimed: a run aborts only when a store call and its one retry
\* have both failed: the step that ends a run early is the second failure
\* of that call, so two store failures are behind every abort.
C22_RetryOnce ==
    [][\A w \in Workers : Aborts(w) => faults' <= faults - 2]_vars

\* ------------------------------------------------------------- the agent
NextAgent == \E body \in Bodies, fail \in BOOLEAN : AddCommonMessage(body, fail)

SpecAgent == Init /\ [][NextAgent]_vars

\* C23: the handler answers 422 and enqueues nothing when the body does not
\* parse, answers 500 when Enqueue fails, and answers 200 exactly when the
\* event was enqueued.
C23_IngestStatus ==
    [][LET l == agent'.last
           enqueued == /\ Len(agent'.queue) = Len(agent.queue) + 1
                       /\ agent'.queue = Append(agent.queue, l.body.kind)
       IN  /\ ~l.body.valid => (l.status = 422 /\ agent'.queue = agent.queue)
           /\ (l.body.valid /\ l.fail) => (l.status = 500 /\ agent'.queue = agent.queue)
           /\ l.status = 200 <=> enqueued
           /\ l.status \in {200, 422, 500}]_vars

\* the queue holds an event, and the last request, whose body was well
\* formed, was answered 500 after the store refused it
C23_Witness ==
    /\ Len(agent.queue) >= 1
    /\ agent.last.body.valid /\ agent.last.fail
    /\ agent.last.status = 500

NextMatcher ==
    \/ \E ru \in TagRules : BuildMatcher(ru)
    \/ \E tags \in SUBSET TagNames : RunMatcher(tags)

SpecMatcher == Init /\ [][NextMatcher]_vars

CutIds == {BadHex} \cup (1 .. NumEvents)

\* the aggregation job of one node, the trigger pass and the group cut
NextCut ==
    \/ Step(1)
    \/ \E e \in Events, k \in {1, 3} : Ingress(e, k)
    \/ \E g \in 1 .. NumEvents : TriggerDone(g)
    \/ \E id \in CutIds, keep \in KeepInputs : CutGroupEvents(id, keep)

\* one node and rule 2, whose groups are ready at once; the calls of the
\* aggregation job are answered, the calls of the group cut may fail
InitCut ==
    /\ events = [e \in Events |-> [status |-> "absent", group_ids |-> <<>>, kind |-> 1]]
    /\ groups = <<>>
    /\ ruleEnabled = [r \in Rules |-> r = 2]
    /\ now = 0
    /\ published = {}
    /\ executing = [n \in Nodes |-> 0]
    /\ job = [w \in Workers |-> Idle]
    /\ stable = 0
    /\ nodeOf = [w \in Workers |-> 1]
    /\ faults = 0
    /\ InitLock
    /\ InitSide

SpecCut == InitCut /\ [][NextCut]_vars

\* C25: a group that has left collecting keeps its event-count in every
\* step, whatever CutGroupEvents deletes: the count stays the one stamped
\* when the group became pending.
C25_CutKeepsCount ==
    [][\A g \in GroupIds :
         groups[g].status # "collecting" =>
            groups'[g].message_count = groups[g].message_count]_vars

\* a cut has deleted an event of a group, which still reports the count
\* stamped at the transition
C25_Witness ==
    /\ cut.status = StatusOK
    /\ cut.deleted_count > 0
    /\ \E g \in GroupIds :
         /\ groups[g].status = "okay"
         /\ groups[g].message_count = cut.deleted_count
         /\ EventsOf(g) = {}

\* keep, as the handler reads it, is outside 0..1000
KeepOutside(keep) ==
    Int64Input(keep, KeepDefault) < 0 \/ Int64Input(keep, KeepDefault) > KeepMax

\* the response is 422, no event is deleted, no reduce event is published
Refused422 ==
    /\ cut'.status = StatusUnprocessableEntity
    /\ events' = events
    /\ cut'.reduce = cut.reduce

C27_SkipNotQueued ==
    [][\A w \in Workers :
         /\ (job[w].pc = "idle" /\ ~SlotFree(nodeOf[w])) => job'[w] = job[w]
         /\ (job[w].pc # "load" /\ job'[w].pc = "load") =>
               (job[w].pc = "idle" /\ SlotFree(nodeOf[w]))
         /\ job'[w].pc \in {"p1", "p2", "p3", "p3u"} => job[w].pc # "idle"]_vars

\* a call finds the run of the other caller in Pass 3 while an event that
\* came in during the run is still pending
C27_Witness ==
    \E v, w \in Workers :
        /\ v # w /\ nodeOf[v] = nodeOf[w]
        /\ job[v].pc = "p3"
        /\ job[w].pc = "idle"
        /\ ~SlotFree(nodeOf[w])
        /\ \E e \in Events : events[e].status = "pending"

\* C28: within one Handle run Pass 2 starts only from Pass 1 with its
\* traversal of the pending events exhausted, Pass 3 starts only from Pass 2
\* with its traversal exhausted, and no run steps back to an earlier pass.
C28_PassOrder ==
    [][\A w \in Workers :
         /\ (job[w].pc # "p2" /\ job'[w].pc = "p2") =>
               (job[w].pc = "p1" /\ job[w].todo = <<>>)
         /\ (job[w].pc \notin {"p3", "p3u"} /\ job'[w].pc \in {"p3", "p3u"}) =>
               (job[w].pc = "p2" /\ job[w].todo = <<>>)
         /\ (job[w].pc # "p1" /\ job'[w].pc = "p1") => job[w].pc = "load"
         /\ job[w].pc \in {"p3", "p3u"} => job'[w].pc \in {"p3", "p3u", "done", "idle"}]_vars

\* a run is in Pass 3 with a group to advance, after Pass 1 has grouped an
\* event and canceled another
C28_Witness ==
    \E w \in Workers :
        /\ job[w].pc = "p3"
        /\ job[w].todo # <<>>
        /\ \E e \in Events : events[e].status = "grouped"
        /\ \E e \in Events : events[e].status = "canceled"

\* the store's Lock succeeds in this step: a fresh lease id is handed out
LockSucceeds == nextLease' = nextLease + 1

\* C29: a TryLock of a node that does not hold the lease makes one Lock
\* attempt and returns: when Lock succeeds HasLock() is true and the lock id
\* remembered is the one of the new lease row; when Lock answers
\* ErrAlreadyLocked HasLock() is false, the lock id is the nil id and
\* TryLock returns no error.
C29_TryLockNotHolding ==
    [][\A n \in Nodes :
         (~HasLock(n) /\ TryLock(n)) =>
            /\ lpc'[n] = "idle"
            /\ LockSucceeds =>
                 /\ HasLock(n)'
                 /\ lease' # None /\ lease'.owner = n
                 /\ lockID'[n] = lease'.lock_id
                 /\ lockID'[n] = nextLease
            /\ (Live /\ faults' = faults) =>
                 /\ ~HasLock(n)'
                 /\ lockID'[n] = NilObjectID
                 /\ lastErr'[n] = "nil"
                 /\ lease' = lease]_vars

\* node 1 has acquired the lease and remembers its id; node 2 does not hold
\* it, remembers no id and its last TryLock returned no error
C29_Witness ==
    /\ Live /\ lease.owner = 1
    /\ HasLock(1) /\ lockID[1] = lease.lock_id
    /\ ~HasLock(2) /\ lockID[2] = NilObjectID /\ lastErr[2] = "nil"
    /\ now > leasedAt
    /\ faults = MaxFaults

\* C30 as claimed: when Renew has answered ErrLockNotFound, TryLock makes a
\* fresh Lock attempt, after which HasLock() is true exactly when that Lock
\* succeeded, and then the lock id remembered is the one newly returned.
C30_RenewFallback ==
    [][\A n \in Nodes :
         TryLockAgain(n) =>
            /\ HasLock(n)' <=> LockSucceeds
            /\ LockSucceeds => (lockID'[n] = lease'.lock_id /\ lockID'[n] = nextLease)]_vars

\* Pass 2 has persisted the canceled message at the head of its cursor
Revisited(w) == P2Visit(w) /\ job'[w].pc = "p2"

\* a matcher of the run matches the payload without error, ignore flag or not
MatchedBy(ms, p) ==
    \E i \in 1 .. Len(ms) :
        ms[i] # NilMatcher /\ (Genuine(ms[i], p) \/ Soft(ms[i], p))

\* C31: whenever Pass 2 persists a canceled event, its stored status is
\* expired if a matcher of the run matches it without error and canceled
\* otherwise, its group ids are what they were, and no other event changes.
C31_Pass2Expires ==
    [][\A w \in Workers :
         Revisited(w) =>
            LET d == Head(job[w].todo)
            IN  /\ events[d.id].status = "canceled"
                /\ events'[d.id].status =
                      IF MatchedBy(job[w].matchers, Payload(d.id))
                      THEN "expired" ELSE "canceled"
                /\ events'[d.id].group_ids = events[d.id].group_ids
                /\ \A e \in Events \ {d.id} : events'[e] = events[e]]_vars

\* Pass 2 is through its cursor: an event canceled under rule 1 alone is
\* expired now that rule 2 matches it, and it carries no group id
C31_Witness ==
    \E w \in Workers :
        /\ job[w].pc = "p2"
        /\ job[w].todo = <<>>
        /\ Len(job[w].matchers) = 2
        /\ \E e \in Events : events[e].status = "expired" /\ events[e].group_ids = <<>>

\* C32: in a run both passes use one set of matchers; an event Pass 1 stores
\* as canceled is matched by none of them; and a step of Pass 2 leaves the
\* status of every grouped event, of every ignored event and of every
\* canceled event that no matcher of the run matches as it was. So Pass 2
\* changes no status that Pass 1 of the same run has stored.
C32_Pass2NoOp ==
    [][\A w \in Workers :
         /\ (job[w].pc \in {"p1", "p2"} /\ job'[w].pc \in {"p1", "p2"}) =>
               job'[w].matchers = job[w].matchers
         /\ (Persisted(w) /\ events'[job[w].msg.id].status = "canceled") =>
               ~MatchedBy(job[w].matchers, Payload(job[w].msg.id))
         /\ P2Visit(w) =>
               \A e \in Events :
                  (\/ events[e].status \in {"grouped", "ignored"}
                   \/ /\ events[e].status = "canceled"
                      /\ ~MatchedBy(job[w].matchers, Payload(e)))
                  => events'[e] = events[e]]_vars

\* Pass 2 is through its cursor in a run whose matchers leave one event
\* canceled and have grouped the other
C32_Witness ==
    \E w \in Workers :
        /\ job[w].pc = "p2"
        /\ job[w].todo = <<>>
        /\ \E e \in Events :
             events[e].status = "canceled" /\ ~MatchedBy(job[w].matchers, Payload(e))
        /\ \E e \in Events : events[e].status = "grouped"

\* C33: a group's status changes only in a step of Pass 3 that stores the
\* group, only from collecting to pending and only when expected-ready-at
\* has been reached; Pass 3 passes over a collecting group that is not
\* ready, stores a ready one as pending, and leaves every other group as it
\* was.
C33_Pass3Transition ==
    [][/\ \A g \in GroupIds :
            groups'[g].status # groups[g].status =>
               /\ groups[g].status = "collecting"
               /\ groups'[g].status = "pending"
               /\ groups[g].expect_ready_at <= now
               /\ \E w \in Workers : P3Update(w) /\ Head(job[w].todo).id = g
       /\ \A w \in Workers :
            (job[w].pc = "p3" /\ job[w].todo # <<>> /\ P3Count(w)) =>
               /\ groups' = groups
               /\ job'[w].pc = "p3u" <=> Head(job[w].todo).expect_ready_at <= now
               /\ job'[w].pc = "p3" <=> Head(job[w].todo).expect_ready_at > now
       /\ \A w \in Workers :
            (P3Update(w) /\ job'[w].pc = "p3") =>
               LET g == Head(job[w].todo).id
               IN  /\ groups[g].status = "collecting"
                   /\ groups'[g].status = "pending"
                   /\ \A h \in GroupIds \ {g} : groups'[h] = groups[h]]_vars

\* Pass 3 has stored a ready group as pending and is now passing over a
\* collecting group whose expected-ready-at lies ahead
C33_Witness ==
    \E w \in Workers :
        /\ job[w].pc = "p3"
        /\ job[w].todo # <<>>
        /\ groups[Head(job[w].todo).id].status = "collecting"
        /\ Head(job[w].todo).expect_ready_at > now
        /\ \E g \in GroupIds : groups[g].status = "pending"

\* C34 as claimed: every group a published group-pending event names is
\* stored as pending or beyond; none of them is still collecting in the store.
C34_PublishedPersisted ==
    \A g \in published : g \in GroupIds /\ groups[g].status # "collecting"

\* C35 as claimed: after a TryUnLock of a node whose UnLock removed the
\* node's lease row from the store and returned no error, HasLock() is
\* false on that node.
C35_UnLockDemotes ==
    [][\A n \in Nodes :
         (/\ TryUnLock(n)
          /\ lease # None /\ lease.lock_id = lockID[n]
          /\ lease' = None
          /\ lastErr'[n] = "nil") => ~HasLock(n)']_vars

\* C36: the executing channel of a node holds one item per run under way on
\* the node, so once a run has ended, by return or by panic, the slot is
\* free again for the next call.
C36_SlotReleased ==
    \A n \in Nodes :
        executing[n] = Cardinality({w \in Workers : nodeOf[w] = n /\ Running(w)})

\* a run has ended in a panic before any group was made: the store has
\* failed, the event is still pending, no run is under way, the slot is free
C36_Witness ==
    /\ faults < MaxFaults
    /\ groups = <<>>
    /\ \E e \in Events : events[e].status = "pending"
    /\ \A w \in Workers : ~Running(w)
    /\ \A n \in Nodes : SlotFree(n)

\* the group lookup of Pass 1 fails in this step
LookupFails(w) == P1Match(w) /\ faults' = faults - 1

\* C37: when the collecting-group lookup fails for an event in Pass 1 the
\* run ends there: the event is stored as pending with the group ids it
\* had, and no stored event changes, so the events the pass has updated
\* before keep their new status.
C37_LookupFailureKeepsPending ==
    [][\A w \in Workers :
         LookupFails(w) =>
            /\ job'[w] = Idle
            /\ events'[job[w].msg.id].status = "pending"
            /\ events'[job[w].msg.id].group_ids = events[job[w].msg.id].group_ids
            /\ events' = events]_vars

\* the store has failed in a pass that had canceled the first event: the
\* second event is still pending, no group exists, no run is under way
C37_Witness ==
    /\ faults < MaxFaults
    /\ groups = <<>>
    /\ events[1].status = "canceled"
    /\ events[2].status = "pending" /\ events[2].group_ids = <<>>
    /\ Match(1, Payload(2)).matched
    /\ \A w \in Workers : ~Running(w)


\* the store's Lock has handed a new lease row to node n in this step
LockGranted(n) == LockSucceeds /\ lease' # None /\ lease'.owner = n /\ lease'.lock_id = nextLease

\* C38: the local state of every lock manager is consistent. While locked is
\* false the remembered lock id is the nil id. locked becomes true, and the
\* remembered id changes to something else than the nil id, only when the
\* store's Lock has just succeeded for the node, and the id remembered then
\* is the one of the new row; while locked stays true the id stays, so it is
\* the id of the node's most recent successful Lock.
C38_LocalStateConsistent ==
    [][\A n \in Nodes :
         /\ ~locked[n] => lockID[n] = NilObjectID
         /\ ~locked'[n] => lockID'[n] = NilObjectID
         /\ LockGranted(n) => (locked'[n] /\ lockID'[n] = nextLease)
         /\ (locked'[n] /\ ~LockGranted(n)) => (locked[n] /\ lockID'[n] = lockID[n])]_vars

\* node 2 took the lease after node 1 and was demoted by a failing unlock,
\* node 1 took a third lease and then released it in the store
C38_Witness ==
    /\ nextLease > 3
    /\ ~locked[2] /\ lockID[2] = NilObjectID /\ lastErr[2] # "nil"
    /\ locked[1] /\ lockID[1] = nextLease - 1
    /\ lease = None


\* Connector.Send on any server list, every server answering as it likes
NextConnector ==
    \/ \E servers \in ServerLists : Send(servers)
    \/ \E reply \in Replies : SendLoop(reply)

SpecConnector == Init /\ [][NextConnector]_vars

\* C39 as claimed: when Send returns, the servers tried are the head of the
\* list in its order, no server was tried after one that stored the event,
\* the error returned is nil exactly when one server stored the event, and
\* an error returned is the one of the last server tried.
C39_SendResult ==
    conn.pc = "done" =>
        /\ conn.tried = SubSeq(conn.servers, 1, Len(conn.tried))
        /\ \A j \in 1 .. Len(conn.tried) - 1 : conn.tried[j] \notin conn.stored
        /\ conn.err = NoError <=> Cardinality(conn.stored) = 1
        /\ conn.err # NoError => conn.err.server = conn.tried[Len(conn.tried)]
====
